---- MODULE Spec2Model ----
(***************************************************************************)
(* TrackRec: the task service (server/src/services/taskServices.ts), the   *)
(* task schema (server/src/models/taskModel.ts), the controllers and the   *)
(* router, as a state machine over the tasks collection.                   *)
(*                                                                         *)
(* Representation.  A text is a sequence of one-character strings.  An     *)
(* optional value is a sequence of length 0 (the key is absent, JavaScript *)
(* undefined) or 1.  A JSON due-date value is a record [t, n] whose tag t  *)
(* says which kind of JSON value it is.  Times are milliseconds since the  *)
(* epoch, scaled down: 0 is the epoch and the clock is always positive.    *)
(***************************************************************************)
EXTENDS Integers, Sequences, FiniteSets, TLC

VARIABLES
  store,        \* the tasks collection: a function from _id (a number) to a document
  nextId,       \* how many ObjectIds the store has assigned
  now,          \* the wall clock (what new Date() / Date.now read)
  resp,         \* the response to the last request a controller completed
  statsPc,      \* getTaskStats: how many of its four count queries have run (0: not running)
  statsAcc,     \* getTaskStats: the counts taken so far
  statsResult,  \* the value the last completed getTaskStats returned (none while one runs)
  statsWrites,  \* history: the gaps k (between count query k and k+1) in which a write completed
  deleted,      \* history: per id, how many times a delete has removed its document
  tasks,        \* client store: the task list (documents as the server returned them)
  selectedTasks,\* client store: the ids of the selected tasks
  taskFilters,  \* client store: the list filters (the store's filters field)
  stats,        \* client store: the statistics last fetched (none at first)
  isLoading,    \* client store: the loading flag
  error,        \* client store: the error message ("" for null)
  inflight,     \* the client's requests that have not been settled
  nextReq       \* how many requests the client has sent

\* The client store (client/src/stores/task-store.ts) and its requests.
ClientVars == <<tasks, selectedTasks, taskFilters, stats, isLoading, error, inflight, nextReq>>

vars ==
  <<store, nextId, now, resp, statsPc, statsAcc, statsResult, statsWrites, deleted, ClientVars>>

(***************************************************************************)
(* Bounds                                                                  *)
(***************************************************************************)
MaxIds == 2     \* tasks ever created in a run
MaxTime == 3    \* the clock runs over 1..MaxTime
MaxStatsTasks == 1  \* tasks created while statistics are computed
MaxSearchLen == 2   \* characters of a search string
MaxRequests == 4    \* requests the client sends in a run
MaxFetches == 2     \* list requests the client sends while it changes its filters
MaxDeletes == 2     \* requests sent before the client's last deleteTask call

(***************************************************************************)
(* Identifiers: /^[0-9a-fA-F]{24}$/ and the ObjectId an accepted string    *)
(* denotes.                                                                *)
(***************************************************************************)
IdLen == 24

HexChars == {"0","1","2","3","4","5","6","7","8","9",
             "a","b","c","d","e","f","A","B","C","D","E","F"}

\* The format check without its anchors: /[0-9a-fA-F]{24}/.
IdFormatUnanchored(id) ==
  \E k \in 1..(Len(id) - IdLen + 1) : \A i \in k..(k + IdLen - 1) : id[i] \in HexChars

\* id.match(/^[0-9a-fA-F]{24}$/)
IdFormatOk(id) == Len(id) = IdLen /\ \A i \in 1..Len(id) : id[i] \in HexChars

HexVal(c) ==
  CASE c = "0" -> 0 [] c = "1" -> 1 [] c = "2" -> 2 [] c = "3" -> 3
    [] c = "4" -> 4 [] c = "5" -> 5 [] c = "6" -> 6 [] c = "7" -> 7
    [] c = "8" -> 8 [] c = "9" -> 9
    [] c \in {"a","A"} -> 10 [] c \in {"b","B"} -> 11 [] c \in {"c","C"} -> 12
    [] c \in {"d","D"} -> 13 [] c \in {"e","E"} -> 14 [] c \in {"f","F"} -> 15
    [] OTHER -> 0

\* The ObjectId a well-formed string is cast to.  The model's ids differ in the
\* last hex digit only; hexadecimal is case-insensitive.
ObjectIdOf(id) == HexVal(id[IdLen])

Pad(c) == [i \in 1..(IdLen - 1) |-> "0"] \o <<c>>

\* The string form of the n-th ObjectId the store assigns (n in 1..5: "a".."e").
IdString(n) == Pad(CASE n = 1 -> "a" [] n = 2 -> "b" [] n = 3 -> "c" [] n = 4 -> "d" [] OTHER -> "e")
IdStringUpper(n) == Pad(CASE n = 1 -> "A" [] n = 2 -> "B" [] n = 3 -> "C" [] n = 4 -> "D" [] OTHER -> "E")

\* The _id the store gives its n-th document.
AssignedId(n) == ObjectIdOf(IdString(n))

(***************************************************************************)
(* JavaScript values of a dueDate key and their conversions.               *)
(***************************************************************************)
JUndefined == [t |-> "undefined", n |-> 0]
JNull == [t |-> "null", n |-> 0]
JNumber(n) == [t |-> "number", n |-> n]
JIsoString(n) == [t |-> "isostring", n |-> n]     \* a string Date parses to time n
JBadString == [t |-> "badstring", n |-> 0]        \* a non-empty string Date cannot parse
JEmptyString == [t |-> "emptystring", n |-> 0]    \* ""

\* JavaScript truthiness (the left operand of && and the condition of ?:).
Truthy(v) ==
  CASE v.t = "undefined" -> FALSE
    [] v.t = "null" -> FALSE
    [] v.t = "number" -> v.n # 0
    [] v.t = "emptystring" -> FALSE
    [] OTHER -> TRUE

\* A Date: valid with a time, or Invalid Date (time NaN).
ValidDate(ms) == [valid |-> TRUE, ms |-> ms]
InvalidDate == [valid |-> FALSE, ms |-> 0]

\* new Date(v)
NewDate(v) ==
  CASE v.t = "number" -> ValidDate(v.n)
    [] v.t = "isostring" -> ValidDate(v.n)
    [] v.t = "null" -> ValidDate(0)
    [] OTHER -> InvalidDate

\* a <= b and a > b on Dates: every comparison with NaN is false.
DateLe(a, b) == a.valid /\ b.valid /\ a.ms <= b.ms
DateGt(a, b) == a.valid /\ b.valid /\ a.ms > b.ms

(***************************************************************************)
(* Texts and the schema's setters.                                         *)
(***************************************************************************)
IsSpace(c) == c = " "

RECURSIVE TrimLeft(_)
TrimLeft(s) == IF s # <<>> /\ IsSpace(Head(s)) THEN TrimLeft(Tail(s)) ELSE s

RECURSIVE TrimRight(_)
TrimRight(s) ==
  IF s # <<>> /\ IsSpace(s[Len(s)]) THEN TrimRight(SubSeq(s, 1, Len(s) - 1)) ELSE s

\* trim: true
Trim(s) == TrimRight(TrimLeft(s))

(***************************************************************************)
(* Request bodies (req.body of POST and PUT).  A key that is absent is     *)
(* <<>> (or "undefined" for isCompleted, JUndefined for dueDate).          *)
(***************************************************************************)
EmptyBody ==
  [title |-> <<>>, description |-> <<>>, priority |-> <<>>, dueDate |-> JUndefined,
   tags |-> <<>>, isCompleted |-> "undefined", createdAt |-> <<>>, updatedAt |-> <<>>]

(***************************************************************************)
(* taskSchema: setters, defaults and validators.                           *)
(***************************************************************************)
TitleMaxLen == 200
DescriptionMaxLen == 1000

PriorityValues == {"low", "medium", "high"}

\* title: required, maxlength 200 (after the trim setter).
TitleValid(title) == title # <<>> /\ title[1] # <<>> /\ Len(title[1]) <= TitleMaxLen

\* An update whose validators do not run.
TitleUpdateUnvalidated(title) == TRUE

\* title as an update validator sees it: only a title the update sets is validated.
TitleUpdateValid(title) == title = <<>> \/ TitleValid(title)

DescriptionValid(description) ==
  description = <<>> \/ Len(description[1]) <= DescriptionMaxLen

\* priority: enum low | medium | high.
\* An enum that also holds the capitalised names of the TypeScript types.
PriorityValidTyped(priority) == priority \in PriorityValues \cup {"Low", "Medium", "High"}

PriorityValid(priority) == priority \in PriorityValues

\* dueDate.validate.validator: date > new Date().  An Invalid Date fails the cast.
DueDateValid(date, clock) == DateGt(date, ValidDate(clock))

\* The Date cast of a dueDate value: a number or a parseable string is that
\* Date, null and "" are null (on which date > new Date() is false, as on an
\* Invalid Date), anything else fails the cast.
CastDate(v) ==
  CASE v.t = "number" -> ValidDate(v.n)
    [] v.t = "isostring" -> ValidDate(v.n)
    [] OTHER -> InvalidDate

\* Whether the schema rejects a dueDate value given to it as it is: the key is
\* present and the cast value fails the validator.
SchemaDueDateRejected(v, clock) ==
  v.t # "undefined" /\ ~DueDateValid(CastDate(v), clock)

\* The Boolean cast of isCompleted: true, 'true', 1, '1', 'yes' are true; false,
\* 'false', 0, '0', 'no' are false; null stays null (the default fills undefined
\* only); anything else is a cast error.
CastCompleted(v) ==
  CASE v \in {"true", "'yes'", "1"} -> "true"
    [] v \in {"false", "'no'", "0"} -> "false"
    [] v = "null" -> "null"
    [] OTHER -> "casterror"

\* new Task({...taskdata, dueDate}): the setters and the defaults.  dueDate is
\* <<>> or <<a Date>>.
NewTask(taskdata, dueDate, clock) ==
  [title |-> IF taskdata.title = <<>> THEN <<>> ELSE <<Trim(taskdata.title[1])>>,
   description |-> IF taskdata.description = <<>> THEN <<>>
                   ELSE <<Trim(taskdata.description[1])>>,
   priority |-> IF taskdata.priority = <<>> THEN "medium" ELSE taskdata.priority[1],
   dueDate |-> dueDate,
   tags |-> IF taskdata.tags = <<>> THEN <<>>
            ELSE [i \in 1..Len(taskdata.tags[1]) |-> Trim(taskdata.tags[1][i])],
   isCompleted |-> IF taskdata.isCompleted = "undefined" THEN "false"
                   ELSE CastCompleted(taskdata.isCompleted),
   createdAt |-> IF taskdata.createdAt = <<>> THEN clock ELSE taskdata.createdAt[1],
   updatedAt |-> IF taskdata.updatedAt = <<>> THEN clock ELSE taskdata.updatedAt[1]]

\* Document validation on save.
ValidateTask(draft, clock) ==
  /\ TitleValid(draft.title)
  /\ DescriptionValid(draft.description)
  /\ PriorityValid(draft.priority)
  /\ draft.dueDate = <<>> \/ DueDateValid(draft.dueDate[1], clock)
  /\ draft.isCompleted # "casterror"

\* pre('save'): this.updatedAt = new Date()
PreSave(draft, clock) == [draft EXCEPT !.updatedAt = clock]

\* The stored document of a validated draft.
Stored(draft, id) ==
  [id |-> id, title |-> draft.title[1], description |-> draft.description,
   priority |-> draft.priority,
   dueDate |-> IF draft.dueDate = <<>> THEN <<>> ELSE <<draft.dueDate[1].ms>>,
   tags |-> draft.tags, isCompleted |-> draft.isCompleted,
   createdAt |-> draft.createdAt, updatedAt |-> draft.updatedAt]

(***************************************************************************)
(* Store operations (the Mongoose model's queries).                        *)
(***************************************************************************)
\* Task.findById(id): <<>> (null) or <<document>>.
FindById(st, oid) == IF oid \in DOMAIN st THEN <<st[oid]>> ELSE <<>>

\* An update document without the updatedAt: new Date() key.
CastUpdateKeepsStamp(updates, dueDate, clock) ==
  [title |-> IF updates.title = <<>> THEN <<>> ELSE <<Trim(updates.title[1])>>,
   description |-> IF updates.description = <<>> THEN <<>>
                   ELSE <<Trim(updates.description[1])>>,
   priority |-> updates.priority,
   dueDate |-> dueDate,
   tags |-> IF updates.tags = <<>> THEN <<>>
            ELSE <<[i \in 1..Len(updates.tags[1]) |-> Trim(updates.tags[1][i])]>>,
   isCompleted |-> updates.isCompleted,
   createdAt |-> updates.createdAt,
   updatedAt |-> updates.updatedAt]

\* An update document to which the schema's defaults are applied.
CastUpdateDefaults(updates, dueDate, clock) ==
  [title |-> IF updates.title = <<>> THEN <<>> ELSE <<Trim(updates.title[1])>>,
   description |-> IF updates.description = <<>> THEN <<>>
                   ELSE <<Trim(updates.description[1])>>,
   priority |-> IF updates.priority = <<>> THEN <<"medium">> ELSE updates.priority,
   dueDate |-> dueDate,
   tags |-> IF updates.tags = <<>> THEN <<>>
            ELSE <<[i \in 1..Len(updates.tags[1]) |-> Trim(updates.tags[1][i])]>>,
   isCompleted |-> IF updates.isCompleted = "undefined" THEN "false" ELSE updates.isCompleted,
   createdAt |-> updates.createdAt,
   updatedAt |-> <<clock>>]

\* An update document {...updates, dueDate, updatedAt} after the cast: keys whose
\* value is undefined are dropped, string setters run.
CastUpdate(updates, dueDate, clock) ==
  [title |-> IF updates.title = <<>> THEN <<>> ELSE <<Trim(updates.title[1])>>,
   description |-> IF updates.description = <<>> THEN <<>>
                   ELSE <<Trim(updates.description[1])>>,
   priority |-> updates.priority,
   dueDate |-> dueDate,
   tags |-> IF updates.tags = <<>> THEN <<>>
            ELSE <<[i \in 1..Len(updates.tags[1]) |-> Trim(updates.tags[1][i])]>>,
   isCompleted |-> updates.isCompleted,
   createdAt |-> updates.createdAt,
   updatedAt |-> <<clock>>]

\* runValidators: true: the validators of the paths the update sets.
ValidateUpdate(upd, clock) ==
  /\ TitleUpdateValid(upd.title)
  /\ DescriptionValid(upd.description)
  /\ upd.priority = <<>> \/ PriorityValid(upd.priority[1])
  /\ upd.dueDate = <<>> \/ DueDateValid(upd.dueDate[1], clock)
  /\ upd.isCompleted = "undefined" \/ CastCompleted(upd.isCompleted) # "casterror"

\* $set that also writes the dueDate key when the update left it undefined.
ApplyUpdateClearsDue(doc, upd) ==
  [id |-> doc.id,
   title |-> IF upd.title = <<>> THEN doc.title ELSE upd.title[1],
   description |-> IF upd.description = <<>> THEN doc.description ELSE upd.description,
   priority |-> IF upd.priority = <<>> THEN doc.priority ELSE upd.priority[1],
   dueDate |-> IF upd.dueDate = <<>> THEN <<>> ELSE <<upd.dueDate[1].ms>>,
   tags |-> IF upd.tags = <<>> THEN doc.tags ELSE upd.tags[1],
   isCompleted |-> IF upd.isCompleted = "undefined" THEN doc.isCompleted
                   ELSE CastCompleted(upd.isCompleted),
   createdAt |-> IF upd.createdAt = <<>> THEN doc.createdAt ELSE upd.createdAt[1],
   updatedAt |-> IF upd.updatedAt = <<>> THEN doc.updatedAt ELSE upd.updatedAt[1]]

\* $set of the keys the cast update holds.
ApplyUpdate(doc, upd) ==
  [id |-> doc.id,
   title |-> IF upd.title = <<>> THEN doc.title ELSE upd.title[1],
   description |-> IF upd.description = <<>> THEN doc.description ELSE upd.description,
   priority |-> IF upd.priority = <<>> THEN doc.priority ELSE upd.priority[1],
   dueDate |-> IF upd.dueDate = <<>> THEN doc.dueDate ELSE <<upd.dueDate[1].ms>>,
   tags |-> IF upd.tags = <<>> THEN doc.tags ELSE upd.tags[1],
   isCompleted |-> IF upd.isCompleted = "undefined" THEN doc.isCompleted
                   ELSE CastCompleted(upd.isCompleted),
   createdAt |-> IF upd.createdAt = <<>> THEN doc.createdAt ELSE upd.createdAt[1],
   updatedAt |-> IF upd.updatedAt = <<>> THEN doc.updatedAt ELSE upd.updatedAt[1]]

\* Removing a document from the collection.
Without(st, oid) == [k \in DOMAIN st \ {oid} |-> st[k]]

\* Adding (or replacing) a document.
With(st, doc) == [k \in DOMAIN st \cup {doc.id} |-> IF k = doc.id THEN doc ELSE st[k]]

(***************************************************************************)
(* $regex with $options 'i': the search string is a pattern.  The model's  *)
(* patterns are over letters, space, '.', '*' and '(': a literal, '.' (any *)
(* character), a '*' after either; a '(' is never closed and a '*' with    *)
(* nothing to repeat is an error, and the query fails.                     *)
(***************************************************************************)
Lower(c) == CASE c = "A" -> "a" [] c = "B" -> "b" [] OTHER -> c

RegexValid(p) ==
  /\ \A i \in 1..Len(p) : p[i] # "("
  /\ \A i \in 1..Len(p) : p[i] = "*" => (i > 1 /\ p[i - 1] # "*")

\* The pattern's atoms: [c: a literal or ".", star: whether a '*' follows].
RECURSIVE Atoms(_)
Atoms(p) ==
  IF p = <<>> THEN <<>>
  ELSE IF Len(p) >= 2 /\ p[2] = "*"
       THEN <<[c |-> p[1], star |-> TRUE]>> \o Atoms(SubSeq(p, 3, Len(p)))
       ELSE <<[c |-> p[1], star |-> FALSE]>> \o Atoms(Tail(p))

AtomMatches(a, c) == a.c = "." \/ Lower(a.c) = Lower(c)

\* Whether atoms k.. match a prefix of text[i..].
RECURSIVE MatchHere(_, _, _, _)
MatchHere(atoms, k, text, i) ==
  IF k > Len(atoms) THEN TRUE
  ELSE IF atoms[k].star
       THEN \/ MatchHere(atoms, k + 1, text, i)
            \/ /\ i <= Len(text)
               /\ AtomMatches(atoms[k], text[i])
               /\ MatchHere(atoms, k, text, i + 1)
       ELSE /\ i <= Len(text)
            /\ AtomMatches(atoms[k], text[i])
            /\ MatchHere(atoms, k + 1, text, i + 1)

\* {field: {$regex: p, $options: 'i'}} on a string (unanchored).
RegexSearch(p, text) ==
  \E i \in 1..(Len(text) + 1) : MatchHere(Atoms(p), 1, text, i)

(***************************************************************************)
(* Queries.  A query is [isCompleted, priority, search, dueBefore]: the    *)
(* conditions present in the filter document.                              *)
(***************************************************************************)
EmptyQuery == [isCompleted |-> <<>>, priority |-> <<>>, search |-> <<>>, dueBefore |-> <<>>]

\* Whether a document matches a filter document.  {isCompleted: b} matches the
\* documents whose field equals b (null equals neither); $or over title and
\* description; {dueDate: {$lt: d, $exists: true}}.
Matches(doc, q) ==
  /\ q.isCompleted = <<>> \/ doc.isCompleted = q.isCompleted[1]
  /\ q.priority = <<>> \/ doc.priority = q.priority[1]
  /\ q.search = <<>>
       \/ RegexSearch(q.search[1], doc.title)
       \/ (doc.description # <<>> /\ RegexSearch(q.search[1], doc.description[1]))
  /\ q.dueBefore = <<>> \/ (doc.dueDate # <<>> /\ doc.dueDate[1] < q.dueBefore[1])

\* Task.countDocuments(q)
CountDocuments(st, q) == Cardinality({k \in DOMAIN st : Matches(st[k], q)})

\* Whether a sequence of documents is in createdAt-descending order.
SortedDesc(docs) ==
  \A i \in 1..(Len(docs) - 1) : docs[i].createdAt >= docs[i + 1].createdAt

\* The sequences over a finite set of documents that list each once.
RECURSIVE Orderings(_)
Orderings(S) ==
  IF S = {} THEN {<<>>}
  ELSE UNION {{<<d>> \o rest : rest \in Orderings(S \ {d})} : d \in S}

\* Task.find(q) without the sort: the matching documents in any order.
FindUnsorted(st, q) ==
  Orderings({st[k] : k \in {j \in DOMAIN st : Matches(st[j], q)}})

\* Task.find(q).sort({createdAt: -1}): the possible results (documents with the
\* same createdAt come in either order).
Find(st, q) ==
  {docs \in Orderings({st[k] : k \in {j \in DOMAIN st : Matches(st[j], q)}}) :
     SortedDesc(docs)}

(***************************************************************************)
(* The service (taskServices.ts).  Each function is given the collection   *)
(* and the clock and returns [error, docs, found, store, dbCalls]: the     *)
(* message of the error it throws ("" when it returns), the documents it   *)
(* returns, the collection it leaves, and how many store calls it issued.  *)
(***************************************************************************)
InvalidIdError == "Invalid task ID format"
DueDateError == "Due date must be in the future"
ValidationError == "ValidationError"
RegexError == "MongoServerError: Regular expression is invalid"

Throw(msg, st) == [error |-> msg, docs |-> <<>>, found |-> FALSE, store |-> st, dbCalls |-> 0]
Return(docs, found, st) ==
  [error |-> "", docs |-> docs, found |-> found, store |-> st, dbCalls |-> 1]

\* taskdata.dueDate && new Date(taskdata.dueDate) <= new Date()
DueDateRejected(dueDate, clock) ==
  Truthy(dueDate) /\ DateLe(NewDate(dueDate), ValidDate(clock))

\* taskdata.dueDate ? new Date(taskdata.dueDate) : undefined
DueDateField(dueDate) == IF Truthy(dueDate) THEN <<NewDate(dueDate)>> ELSE <<>>

\* The filter document with isCompleted tested for truthiness, not presence.
BuildQueryTruthy(filters) ==
  [isCompleted |-> IF filters.isCompleted = "true" THEN <<filters.isCompleted>> ELSE <<>>,
   priority |-> IF filters.priority # <<>> /\ filters.priority[1] # ""
                THEN filters.priority ELSE <<>>,
   search |-> IF filters.search # <<>> /\ filters.search[1] # <<>>
              THEN filters.search ELSE <<>>,
   dueBefore |-> <<>>]

\* The filter document getAllTasks builds.
BuildQuery(filters) ==
  [isCompleted |-> IF filters.isCompleted # "undefined" THEN <<filters.isCompleted>> ELSE <<>>,
   priority |-> IF filters.priority # <<>> /\ filters.priority[1] # ""
                THEN filters.priority ELSE <<>>,
   search |-> IF filters.search # <<>> /\ filters.search[1] # <<>>
              THEN filters.search ELSE <<>>,
   dueBefore |-> <<>>]

\* getAllTasks(filters): the results it may return (one per order of equal createdAt).
getAllTasks(st, filters) ==
  LET q == BuildQuery(filters) IN
    IF q.search # <<>> /\ ~RegexValid(q.search[1])
    THEN {[Throw(RegexError, st) EXCEPT !.dbCalls = 1]}
    ELSE {Return(docs, TRUE, st) : docs \in Find(st, q)}

getTaskById(st, id) ==
  IF ~IdFormatOk(id) THEN Throw(InvalidIdError, st)
  ELSE LET hit == FindById(st, ObjectIdOf(id)) IN Return(hit, hit # <<>>, st)

\* createTask returning the request's title as sent rather than the saved document's.
createTaskEchoesInput(st, nid, clock, taskdata) ==
  IF DueDateRejected(taskdata.dueDate, clock) THEN Throw(DueDateError, st)
  ELSE LET draft == NewTask(taskdata, DueDateField(taskdata.dueDate), clock) IN
         IF ~ValidateTask(draft, clock) THEN Throw(ValidationError, st)
         ELSE LET doc == Stored(PreSave(draft, clock), AssignedId(nid + 1)) IN
                Return(<<[doc EXCEPT !.title = taskdata.title[1]]>>, TRUE, With(st, doc))

createTask(st, nid, clock, taskdata) ==
  IF DueDateRejected(taskdata.dueDate, clock) THEN Throw(DueDateError, st)
  ELSE LET draft == NewTask(taskdata, DueDateField(taskdata.dueDate), clock) IN
         IF ~ValidateTask(draft, clock) THEN Throw(ValidationError, st)
         ELSE LET doc == Stored(PreSave(draft, clock), AssignedId(nid + 1)) IN
                Return(<<doc>>, TRUE, With(st, doc))

\* Task.findByIdAndUpdate(id, updateData, {new: true, runValidators: true})
\* An update that validates the whole resulting document, as save() does.
FindByIdAndUpdateRevalidates(st, oid, upd, clock) ==
  IF ~ValidateUpdate(upd, clock) THEN Throw(ValidationError, st)
  ELSE IF oid \notin DOMAIN st THEN Return(<<>>, FALSE, st)
  ELSE LET doc == ApplyUpdate(st[oid], upd) IN
         IF doc.dueDate # <<>> /\ ~DueDateValid(ValidDate(doc.dueDate[1]), clock)
         THEN Throw(ValidationError, st)
         ELSE Return(<<doc>>, TRUE, With(st, doc))

FindByIdAndUpdate(st, oid, upd, clock) ==
  IF ~ValidateUpdate(upd, clock) THEN Throw(ValidationError, st)
  ELSE IF oid \notin DOMAIN st THEN Return(<<>>, FALSE, st)
  ELSE LET doc == ApplyUpdate(st[oid], upd) IN Return(<<doc>>, TRUE, With(st, doc))

\* updateTask testing the due date before the id.
updateTaskDueDateFirst(st, clock, id, updates) ==
  IF DueDateRejected(updates.dueDate, clock) THEN Throw(DueDateError, st)
  ELSE IF ~IdFormatOk(id) THEN Throw(InvalidIdError, st)
  ELSE FindByIdAndUpdate(st, ObjectIdOf(id),
                         CastUpdate(updates, DueDateField(updates.dueDate), clock), clock)

updateTask(st, clock, id, updates) ==
  IF ~IdFormatOk(id) THEN Throw(InvalidIdError, st)
  ELSE IF DueDateRejected(updates.dueDate, clock) THEN Throw(DueDateError, st)
  ELSE FindByIdAndUpdate(st, ObjectIdOf(id),
                         CastUpdate(updates, DueDateField(updates.dueDate), clock), clock)

\* deleteTask reporting success whether or not a document was found.
deleteTaskAlwaysTrue(st, id) ==
  IF ~IdFormatOk(id) THEN Throw(InvalidIdError, st)
  ELSE LET oid == ObjectIdOf(id) IN
         IF oid \in DOMAIN st THEN Return(<<>>, TRUE, Without(st, oid))
         ELSE Return(<<>>, TRUE, st)

deleteTask(st, id) ==
  IF ~IdFormatOk(id) THEN Throw(InvalidIdError, st)
  ELSE LET oid == ObjectIdOf(id) IN
         IF oid \in DOMAIN st THEN Return(<<>>, TRUE, Without(st, oid))
         ELSE Return(<<>>, FALSE, st)

\* The four filter documents of getTaskStats.
TotalQuery == EmptyQuery
CompletedQueryNoFilter == EmptyQuery
CompletedQuery == [EmptyQuery EXCEPT !.isCompleted = <<"true">>]
PendingQuery == [EmptyQuery EXCEPT !.isCompleted = <<"false">>]
OverdueQueryAnyCompletion(clock) == [EmptyQuery EXCEPT !.dueBefore = <<clock>>]
OverdueQuery(clock) == [EmptyQuery EXCEPT !.isCompleted = <<"false">>, !.dueBefore = <<clock>>]

\* getTaskStats() when no write completes between its four count queries: what
\* it returns to a client that is alone.
getTaskStats(st, clock) ==
  [Return(<<[total |-> CountDocuments(st, TotalQuery),
             completed |-> CountDocuments(st, CompletedQuery),
             pending |-> CountDocuments(st, PendingQuery),
             overdue |-> CountDocuments(st, OverdueQuery(clock))]>>, TRUE, st)
     EXCEPT !.dbCalls = 4]

(***************************************************************************)
(* The router (taskRoutes.ts).  A request path is the sequence of its      *)
(* segments below /api/tasks; a request goes to the first route, in the    *)
(* order of registration, whose method and pattern match.                  *)
(***************************************************************************)
StatsPath == <<"s", "t", "a", "t", "s">>

\* The routes with '/:id' registered before '/stats'.
RoutesIdFirst ==
  <<[method |-> "GET", pattern |-> "param", handler |-> "getTaskById"],
    [method |-> "GET", pattern |-> "stats", handler |-> "getTaskStats"],
    [method |-> "GET", pattern |-> "root", handler |-> "getAllTasks"],
    [method |-> "POST", pattern |-> "root", handler |-> "createTask"],
    [method |-> "PUT", pattern |-> "param", handler |-> "updateTask"],
    [method |-> "DELETE", pattern |-> "param", handler |-> "deleteTask"]>>

Routes ==
  <<[method |-> "GET", pattern |-> "stats", handler |-> "getTaskStats"],
    [method |-> "GET", pattern |-> "root", handler |-> "getAllTasks"],
    [method |-> "GET", pattern |-> "param", handler |-> "getTaskById"],
    [method |-> "POST", pattern |-> "root", handler |-> "createTask"],
    [method |-> "PUT", pattern |-> "param", handler |-> "updateTask"],
    [method |-> "DELETE", pattern |-> "param", handler |-> "deleteTask"]>>

\* Whether a route's pattern matches a path: '/', '/stats', '/:id'.
PatternMatches(pattern, path) ==
  CASE pattern = "root" -> path = <<>>
    [] pattern = "stats" -> path = <<StatsPath>>
    [] OTHER -> Len(path) = 1 /\ path[1] # <<>>

\* The handler a request is dispatched to ("none": no route matches).
Dispatch(method, path) ==
  LET hits == {i \in 1..Len(Routes) :
                 Routes[i].method = method /\ PatternMatches(Routes[i].pattern, path)}
  IN IF hits = {} THEN "none"
     ELSE Routes[CHOOSE i \in hits : \A j \in hits : i <= j].handler

(***************************************************************************)
(* The controllers (taskController.ts): the response of a request.         *)
(***************************************************************************)
NoQuery == [completed |-> <<>>, priority |-> <<>>, search |-> <<>>]

\* The filters getAllTasksController extracts from req.query.
ExtractFilters(query) ==
  [isCompleted |-> IF query.completed = <<"true">> THEN "true"
                   ELSE IF query.completed = <<"false">> THEN "false" ELSE "undefined",
   priority |-> query.priority,
   search |-> query.search]

\* res.json / res.status(...).json / next(error)
Response(op, id, body, query, r, okStatus) ==
  [op |-> op, id |-> id, body |-> body, query |-> query,
   status |-> IF r.error # "" THEN "error" ELSE IF r.found THEN okStatus ELSE "404",
   error |-> r.error, docs |-> r.docs, dbCalls |-> r.dbCalls]

NoResponse ==
  [op |-> "none", id |-> <<>>, body |-> EmptyBody, query |-> NoQuery,
   status |-> "none", error |-> "", docs |-> <<>>, dbCalls |-> 0]

(***************************************************************************)
(* State machine.                                                          *)
(***************************************************************************)
NoAcc == [total |-> 0, completed |-> 0, pending |-> 0]

\* The filters of the client store: {} (every key undefined).
NoFilters == [isCompleted |-> "undefined", priority |-> <<>>, search |-> <<>>]

\* The client store as create() builds it, with no request sent.
ClientInit ==
  /\ tasks = <<>>
  /\ selectedTasks = {}
  /\ taskFilters = NoFilters
  /\ stats = <<>>
  /\ isLoading = FALSE
  /\ error = ""
  /\ inflight = {}
  /\ nextReq = 0

\* The ObjectIds the store can assign within the bound.
Oids == {AssignedId(n) : n \in 1..MaxIds}

\* The server connected to an empty collection at time clock.
InitAt(clock) ==
  /\ store = <<>>
  /\ nextId = 0
  /\ now = clock
  /\ resp = NoResponse
  /\ statsPc = 0
  /\ statsAcc = NoAcc
  /\ statsResult = <<>>
  /\ statsWrites = {}
  /\ deleted = [k \in Oids |-> 0]
  /\ ClientInit

Init == InitAt(1)

\* The server started at any time of the clock's range.
InitAnyTime == \E clock \in 1..MaxTime : InitAt(clock)

StatsVars == <<statsPc, statsAcc, statsResult>>

\* A write that completes while getTaskStats is between two of its queries.
NoteWrite(wrote) ==
  statsWrites' = IF wrote /\ statsPc \in 1..3 THEN statsWrites \cup {statsPc} ELSE statsWrites

\* createTask(body) as it acts on the collection.
CreateTaskCall(body) ==
  LET r == createTask(store, nextId, now, body) IN
    /\ r.error # "" \/ nextId < MaxIds
    /\ store' = r.store
    /\ nextId' = IF r.error = "" THEN nextId + 1 ELSE nextId
    /\ NoteWrite(r.error = "")
    /\ UNCHANGED <<now, StatsVars, deleted>>

\* updateTask(id, body) as it acts on the collection.
UpdateTaskCall(id, body) ==
  LET r == updateTask(store, now, id, body) IN
    /\ store' = r.store
    /\ NoteWrite(r.error = "" /\ r.found)
    /\ UNCHANGED <<nextId, now, StatsVars, deleted>>

\* deleteTask(id) as it acts on the collection.
DeleteTaskCall(id) ==
  LET r == deleteTask(store, id) IN
    /\ store' = r.store
    /\ deleted' = [k \in Oids |->
                     IF k \in DOMAIN store /\ k \notin DOMAIN r.store /\ deleted[k] < 2
                     THEN deleted[k] + 1 ELSE deleted[k]]
    /\ NoteWrite(r.error = "" /\ r.found)
    /\ UNCHANGED <<nextId, now, StatsVars>>

\* POST /api/tasks
CreateTaskReq(body) ==
  /\ CreateTaskCall(body)
  /\ resp' = Response("create", <<>>, body, NoQuery, createTask(store, nextId, now, body), "201")

\* PUT /api/tasks/:id
UpdateTaskReq(id, body) ==
  /\ UpdateTaskCall(id, body)
  /\ resp' = Response("update", id, body, NoQuery, updateTask(store, now, id, body), "200")

\* DELETE /api/tasks/:id
DeleteTaskReq(id) ==
  /\ DeleteTaskCall(id)
  /\ resp' = Response("delete", id, EmptyBody, NoQuery, deleteTask(store, id), "200")

\* GET /api/tasks/:id
GetTaskReq(id) ==
  LET r == getTaskById(store, id) IN
    /\ resp' = Response("get", id, EmptyBody, NoQuery, r, "200")
    /\ UNCHANGED <<store, nextId, now, StatsVars, statsWrites, deleted>>

\* GET /api/tasks/stats, from a client that is alone.
GetStatsReq ==
  /\ resp' = Response("stats", <<>>, EmptyBody, NoQuery, getTaskStats(store, now), "200")
  /\ UNCHANGED <<store, nextId, now, StatsVars, statsWrites, deleted>>

\* A GET request with a one-segment path, as the router dispatches it.
GetReq(segment) ==
  \/ Dispatch("GET", <<segment>>) = "getTaskById" /\ GetTaskReq(segment)
  \/ Dispatch("GET", <<segment>>) = "getTaskStats" /\ GetStatsReq

\* GET /api/tasks?completed=&priority=&search=
ListTasksReq(query) ==
  \E r \in getAllTasks(store, ExtractFilters(query)) :
    /\ resp' = Response("list", <<>>, EmptyBody, query, r, "200")
    /\ UNCHANGED <<store, nextId, now, StatsVars, statsWrites, deleted>>

\* getTaskStats, one count query at a time.
StatsTotal ==
  /\ statsPc = 0
  /\ statsAcc' = [NoAcc EXCEPT !.total = CountDocuments(store, TotalQuery)]
  /\ statsPc' = 1
  /\ statsResult' = <<>>
  /\ statsWrites' = {}
  /\ UNCHANGED <<store, nextId, now, resp, deleted>>

StatsCompleted ==
  /\ statsPc = 1
  /\ statsAcc' = [statsAcc EXCEPT !.completed = CountDocuments(store, CompletedQuery)]
  /\ statsPc' = 2
  /\ UNCHANGED <<store, nextId, now, resp, statsResult, statsWrites, deleted>>

StatsPending ==
  /\ statsPc = 2
  /\ statsAcc' = [statsAcc EXCEPT !.pending = CountDocuments(store, PendingQuery)]
  /\ statsPc' = 3
  /\ UNCHANGED <<store, nextId, now, resp, statsResult, statsWrites, deleted>>

StatsOverdue ==
  /\ statsPc = 3
  /\ statsResult' = <<[total |-> statsAcc.total, completed |-> statsAcc.completed,
                       pending |-> statsAcc.pending,
                       overdue |-> CountDocuments(store, OverdueQuery(now))]>>
  /\ statsAcc' = NoAcc
  /\ statsPc' = 0
  /\ UNCHANGED <<store, nextId, now, resp, statsWrites, deleted>>

\* The clock advances.
Tick ==
  /\ now < MaxTime
  /\ now' = now + 1
  /\ UNCHANGED <<store, nextId, resp, StatsVars, statsWrites, deleted>>

(***************************************************************************)
(* Spec: the requests of one client alone, dispatched by the router, at    *)
(* any one time of the clock (the time-dependent behaviour is in SpecDue,  *)
(* SpecFrame and SpecStats).                                               *)
(***************************************************************************)
TextA == <<"a">>
TextB == <<"b">>
TextT == <<"t">>

\* A time later than every clock value.
Future == MaxTime + 1

\* The string form of a stored document's _id.
OidString(oid) == CHOOSE s \in {IdString(n) : n \in 1..5} : ObjectIdOf(s) = oid

MinimalBody == [EmptyBody EXCEPT !.title = <<<<" ", "a", " ">>>>]
FullBody ==
  [EmptyBody EXCEPT !.title = <<TextB>>, !.description = <<<<"d", " ">>>>,
                    !.priority = <<"high">>, !.dueDate = JIsoString(Future),
                    !.tags = <<<<TextT>>>>, !.isCompleted = "true"]

CreateBodies ==
  {MinimalBody, FullBody, EmptyBody, [MinimalBody EXCEPT !.isCompleted = "null"]}

UpdateBodies == {[EmptyBody EXCEPT !.isCompleted = "true"]}

RequestIds ==
  {IdString(n) : n \in 1..MaxIds} \cup {IdStringUpper(1), Pad("f"), Pad("g"),
                                        Pad("a") \o <<"0">>, StatsPath, <<"s", "t">>}

Queries ==
  {[NoQuery EXCEPT !.completed = c] : c \in {<<>>, <<"true">>, <<"false">>, <<"1">>}}

Next ==
  /\ UNCHANGED ClientVars
  /\ \/ \E body \in CreateBodies : CreateTaskReq(body)
     \/ \E id \in RequestIds, body \in UpdateBodies : UpdateTaskReq(id, body)
     \/ \E id \in RequestIds : DeleteTaskReq(id)
     \/ \E id \in RequestIds : GetReq(id)
     \/ \E query \in Queries : ListTasksReq(query)

Spec == InitAnyTime /\ [][Next]_vars

(***************************************************************************)
(* Claims checked under Spec.                                              *)
(***************************************************************************)
\* The documents of the collection.
StoredDocs == {store[k] : k \in DOMAIN store}

\* The elements of a sequence.
Range(seq) == {seq[i] : i \in 1..Len(seq)}

\* A 24-character hexadecimal string.
Hex24(id) ==
  /\ Len(id) = 24
  /\ \A i \in 1..Len(id) :
       id[i] \in {"0","1","2","3","4","5","6","7","8","9",
                  "a","b","c","d","e","f","A","B","C","D","E","F"}

\* C6: deleteTask reports success for an id at most once: a delete of an id
\* that a delete has already removed answers 404, a delete of a stored task
\* answers 200 and removes it, and a task once deleted is in no getTask and no
\* listTasks result.
C6_DeleteOnce ==
  /\ [](\A k \in Oids : deleted[k] <= 1)
  /\ [](\A k \in Oids : deleted[k] >= 1 =>
          /\ getTaskById(store, OidString(k)).docs = <<>>
          /\ \A q \in Queries : \A r \in getAllTasks(store, ExtractFilters(q)) :
               \A i \in 1..Len(r.docs) : r.docs[i].id # k)
  /\ [][\A id \in RequestIds : (DeleteTaskReq(id) /\ Hex24(id)) =>
          IF ObjectIdOf(id) \in DOMAIN store
          THEN resp'.status = "200" /\ ObjectIdOf(id) \notin DOMAIN store'
          ELSE resp'.status = "404" /\ store' = store]_vars

\* C6's case: a second delete of a task that existed has answered 404.
C6_Witness ==
  /\ resp.op = "delete"
  /\ resp.status = "404"
  /\ resp.id \in {IdString(n) : n \in 1..MaxIds}
  /\ deleted[ObjectIdOf(resp.id)] = 1

\* C7: after a createTask that succeeded, getTask of the returned id returns
\* the returned task, equal in every field; the id is the one the store
\* assigned, and createdAt and updatedAt are set to clock readings.
C7_RoundTrip ==
  (resp.op = "create" /\ resp.status = "201") =>
    /\ Len(resp.docs) = 1
    /\ resp.docs[1].id = AssignedId(nextId)
    /\ resp.docs[1].createdAt \in 1..now
    /\ resp.docs[1].updatedAt \in 1..now
    /\ LET got == getTaskById(store, OidString(resp.docs[1].id)) IN
         /\ got.error = ""
         /\ got.docs = resp.docs
         /\ \A f \in {"title", "description", "priority", "dueDate", "tags",
                      "isCompleted", "createdAt", "updatedAt"} :
              got.docs[1][f] = resp.docs[1][f]

\* C7's case: a task with every field given has been created.
C7_Witness ==
  /\ resp.op = "create"
  /\ resp.status = "201"
  /\ resp.body = FullBody
  /\ resp.docs[1].dueDate = <<Future>>
  /\ resp.docs[1].updatedAt = 2

\* C8: a list filtered on isCompleted false holds no completed task, one
\* filtered on true holds no task that is not completed, and a list with no
\* isCompleted filter holds every stored task once.
C8_CompletedFilter ==
  (resp.op = "list" /\ resp.status = "200") =>
    LET f == ExtractFilters(resp.query).isCompleted IN
      /\ f = "false" => \A d \in Range(resp.docs) : d.isCompleted # "true"
      /\ f = "true" => \A d \in Range(resp.docs) : d.isCompleted # "false"
      /\ f = "undefined" =>
           Range(resp.docs) = StoredDocs /\ Len(resp.docs) = Cardinality(StoredDocs)

\* C8's case: a list filtered on isCompleted false has left out a completed task.
C8_Witness ==
  /\ resp.op = "list"
  /\ resp.query.completed = <<"false">>
  /\ resp.docs # <<>>
  /\ \E d \in StoredDocs : d.isCompleted = "true"

\* C10: getTask of an id that is not a 24-character hexadecimal string fails
\* with the invalid-id error without a store query; getTask of a well-formed
\* id with no record answers 404 and never the invalid-id error.
C10_GetTaskIds ==
  resp.op = "get" =>
    /\ ~Hex24(resp.id) =>
         resp.status = "error" /\ resp.error = InvalidIdError /\ resp.dbCalls = 0
    /\ Hex24(resp.id) => resp.error = ""
    /\ (Hex24(resp.id) /\ ObjectIdOf(resp.id) \notin DOMAIN store) => resp.status = "404"

\* C10's case: getTask of a well-formed id with no record has answered 404
\* while tasks are stored.
C10_Witness ==
  /\ resp.op = "get"
  /\ resp.id = Pad("f")
  /\ resp.status = "404"
  /\ store # <<>>

\* C20: a GET request for /stats goes to the statistics handler and never to
\* the by-id handler: it is answered with the statistics, and the literal
\* 'stats' is never tested as an id, so it never gets the invalid-id error.
C20_StatsRouteFirst ==
  /\ [](resp.op = "get" => resp.id # StatsPath)
  /\ [][GetReq(StatsPath) =>
          /\ resp'.op = "stats"
          /\ resp'.status = "200"
          /\ resp'.error # InvalidIdError]_vars

\* C20's case: GET /stats has been answered with the statistics of a
\* collection that holds tasks.
C20_Witness ==
  /\ resp.op = "stats"
  /\ resp.status = "200"
  /\ store # <<>>
  /\ resp.docs[1].total = Cardinality(DOMAIN store)

(***************************************************************************)
(* SpecDue: createTask and updateTask over the values a dueDate key can    *)
(* carry, with the clock advancing.                                        *)
(***************************************************************************)
DueValues ==
  {JNumber(0), JNumber(1), JNumber(2), JIsoString(Future), JNull, JEmptyString, JBadString}

DueCreateBodies == {MinimalBody} \cup {[MinimalBody EXCEPT !.dueDate = v] : v \in DueValues}

DueUpdateBodies == {[EmptyBody EXCEPT !.dueDate = v] : v \in DueValues}

DueIds == {IdString(n) : n \in 1..MaxIds} \cup {Pad("f"), Pad("g")}

NextDue ==
  /\ UNCHANGED ClientVars
  /\ \/ \E body \in DueCreateBodies : CreateTaskReq(body)
     \/ \E id \in DueIds, body \in DueUpdateBodies : UpdateTaskReq(id, body)
     \/ Tick

SpecDue == Init /\ [][NextDue]_vars

\* A dueDate value that denotes a time at or before the clock reading.
AtOrBefore(v, clock) == v.t \in {"number", "isostring"} /\ v.n <= clock

\* C1: a createTask, or an updateTask of a well-formed id, whose dueDate is at
\* or before the current time (the epoch value 0 included) fails with the
\* due-date error and leaves the collection as it was.
C1_PastDueRejected ==
  [][/\ \A body \in DueCreateBodies :
          (CreateTaskReq(body) /\ AtOrBefore(body.dueDate, now)) =>
            (resp'.error = DueDateError /\ store' = store)
     /\ \A id \in DueIds, body \in DueUpdateBodies :
          (UpdateTaskReq(id, body) /\ Hex24(id) /\ AtOrBefore(body.dueDate, now)) =>
            (resp'.error = DueDateError /\ store' = store)]_vars

\* C23: for every dueDate value and clock reading, the service's due-date
\* check rejects a createTask or updateTask exactly when the schema's dueDate
\* validator rejects the value.
C23_DueChecksAgree ==
  [][/\ \A body \in DueCreateBodies :
          CreateTaskReq(body) =>
            (resp'.error = DueDateError <=> SchemaDueDateRejected(body.dueDate, now))
     /\ \A id \in DueIds, body \in DueUpdateBodies :
          (UpdateTaskReq(id, body) /\ Hex24(id)) =>
            (resp'.error = DueDateError <=> SchemaDueDateRejected(body.dueDate, now))]_vars

\* C17: a createTask or updateTask whose dueDate key is present with a value
\* that is no valid date in the future (an unparseable string, the empty
\* string, 0, null) does not succeed.
C17_InvalidDueDateFails ==
  [][/\ \A body \in DueCreateBodies :
          (CreateTaskReq(body) /\ body.dueDate \in {JBadString, JEmptyString, JNumber(0), JNull}) =>
            resp'.status # "201"
     /\ \A id \in DueIds, body \in DueUpdateBodies :
          (UpdateTaskReq(id, body) /\ body.dueDate \in {JBadString, JEmptyString, JNumber(0), JNull}) =>
            resp'.status # "200"]_vars

(***************************************************************************)
(* SpecFrame: one updateTask applied to a collection that createTask has   *)
(* filled, over patches that carry each subset shape of the six fields.    *)
(***************************************************************************)
DueSoonBody == [FullBody EXCEPT !.dueDate = JNumber(2), !.isCompleted = "false"]

FrameCreateBodies == {MinimalBody, FullBody, DueSoonBody}

\* The collections n createTask calls leave, with the clock of the last call.
RECURSIVE CreatedStores(_)
CreatedStores(n) ==
  IF n = 0 THEN {[st |-> <<>>, at |-> 1]}
  ELSE UNION {{[st |-> createTask(p.st, n - 1, cb[1], cb[2]).store, at |-> cb[1]] :
                 cb \in {x \in (p.at..MaxTime) \X FrameCreateBodies :
                           createTask(p.st, n - 1, x[1], x[2]).error = ""}} :
              p \in CreatedStores(n - 1)}

InitFrame ==
  \E n \in 0..MaxIds : \E p \in CreatedStores(n) : \E t \in p.at..MaxTime :
    /\ store = p.st
    /\ nextId = n
    /\ now = t
    /\ resp = NoResponse
    /\ statsPc = 0
    /\ statsAcc = NoAcc
    /\ statsResult = <<>>
    /\ statsWrites = {}
    /\ deleted = [k \in Oids |-> 0]
  /\ ClientInit

PatchFields == {"title", "description", "priority", "dueDate", "tags", "isCompleted"}

\* The patch that sets every field.
FullPatch ==
  [EmptyBody EXCEPT !.title = <<<<"c">>>>, !.description = <<<<"e">>>>,
                    !.priority = <<"low">>, !.dueDate = JNumber(Future),
                    !.tags = <<<<<<"u">>>>>>, !.isCompleted = "true"]

\* The patch that carries the fields of F only.
PatchOf(F) == [f \in DOMAIN EmptyBody |-> IF f \in F THEN FullPatch[f] ELSE EmptyBody[f]]

FramePatches ==
  {PatchOf({}), PatchOf(PatchFields)}
    \cup {PatchOf({f}) : f \in PatchFields}
    \cup {PatchOf(PatchFields \ {f}) : f \in PatchFields}
    \cup {[EmptyBody EXCEPT !.isCompleted = "false"]}

FrameIds == {IdString(n) : n \in 1..MaxIds} \cup {Pad("f"), Pad("g")}

NextFrame ==
  /\ resp.op = "none"
  /\ UNCHANGED ClientVars
  /\ \E id \in FrameIds, body \in FramePatches : UpdateTaskReq(id, body)

SpecFrame == InitFrame /\ [][NextFrame]_vars

\* Whether a request body lacks a field.
Lacks(body, f) ==
  IF f = "dueDate" THEN body.dueDate.t = "undefined"
  ELSE IF f = "isCompleted" THEN body.isCompleted = "undefined"
  ELSE body[f] = <<>>

\* C2: an updateTask leaves every stored task stored and, in each of them,
\* every one of title, description, priority, dueDate, tags and isCompleted
\* that the patch lacks as it was.
C2_AbsentFieldsKept ==
  [][\A id \in FrameIds, body \in FramePatches :
       UpdateTaskReq(id, body) =>
         /\ DOMAIN store' = DOMAIN store
         /\ \A k \in DOMAIN store : \A f \in PatchFields :
              Lacks(body, f) => store'[k][f] = store[k][f]]_vars

\* C2's case: a patch without dueDate has changed the title of a task whose
\* stored dueDate is no longer in the future, and the dueDate is still there.
C2_Witness ==
  /\ resp.op = "update"
  /\ resp.status = "200"
  /\ resp.body = PatchOf({"title"})
  /\ now = 2
  /\ resp.docs[1].title = <<"c">>
  /\ resp.docs[1].dueDate = <<2>>
  /\ store[resp.docs[1].id] = resp.docs[1]

(***************************************************************************)
(* SpecStats: getTaskStats, one count query at a time, while other clients *)
(* create, update and delete tasks and the clock advances.  resp is the    *)
(* statistics client's; the writers' responses are not recorded.           *)
(***************************************************************************)
PendingBody == [EmptyBody EXCEPT !.title = <<TextA>>]
DoneDueBody == [PendingBody EXCEPT !.dueDate = JNumber(2), !.isCompleted = "true"]
NullBody == [PendingBody EXCEPT !.isCompleted = "null"]
NullDueBody == [DoneDueBody EXCEPT !.isCompleted = "null"]

StatsCreateBodies == {PendingBody, DoneDueBody, NullBody, NullDueBody}

StatsUpdateBodies ==
  {[EmptyBody EXCEPT !.isCompleted = "true"], [EmptyBody EXCEPT !.isCompleted = "false"]}

StatsIds == {IdString(n) : n \in 1..MaxStatsTasks}

NextStats ==
  /\ UNCHANGED ClientVars
  /\ \/ \E body \in StatsCreateBodies :
          nextId < MaxStatsTasks /\ CreateTaskCall(body) /\ UNCHANGED resp
     \/ \E id \in StatsIds, body \in StatsUpdateBodies : UpdateTaskCall(id, body) /\ UNCHANGED resp
     \/ \E id \in StatsIds : DeleteTaskCall(id) /\ UNCHANGED resp
     \/ StatsTotal
     \/ StatsCompleted
     \/ StatsPending
     \/ StatsOverdue
     \/ Tick

SpecStats == Init /\ [][NextStats]_vars

(***************************************************************************)
(* Claims checked under SpecStats.                                         *)
(***************************************************************************)
\* C3: a getTaskStats that no write overlapped returns completed + pending =
\* total and overdue <= pending.
C3_SequentialStats ==
  (statsResult # <<>> /\ statsWrites = {}) =>
    /\ statsResult[1].completed + statsResult[1].pending = statsResult[1].total
    /\ statsResult[1].overdue <= statsResult[1].pending

\* C4: getTaskStats is not atomic across its four counts: it returns
\* completed + pending # total when a createTask or deleteTask completes
\* between two of its count queries (C4_Witness), and, tasks whose isCompleted
\* is null aside, only when a write completes between two of them.
C4_StatsNotAtomic ==
  [][StatsOverdue =>
       (statsResult'[1].completed + statsResult'[1].pending # statsResult'[1].total =>
          \/ statsWrites # {}
          \/ \E k \in DOMAIN store : store[k].isCompleted = "null")]_vars

\* C4's case: getTaskStats has returned total 0 and pending 1, the only task
\* ever created having been created between two of its count queries.
C4_Witness ==
  /\ statsResult # <<>>
  /\ statsResult[1].total = 0
  /\ statsResult[1].completed + statsResult[1].pending = 1
  /\ statsWrites # {}
  /\ nextId = 1
  /\ \A k \in DOMAIN store : store[k].isCompleted # "null"

\* C5 as stated: every result of getTaskStats has overdue <= pending, whatever
\* writes its four count queries are interleaved with.
C5_OverdueLePending ==
  statsResult # <<>> => statsResult[1].overdue <= statsResult[1].pending

\* C5, amended: a result of getTaskStats has overdue <= pending when no write
\* completed between its pending count and its overdue count.
C5_OverdueLePendingNoLateWrite ==
  (statsResult # <<>> /\ 3 \notin statsWrites) =>
    statsResult[1].overdue <= statsResult[1].pending

\* C5's case: a task whose due date has passed was flipped from completed to
\* pending before the pending count, and is counted pending and overdue.
C5_Witness ==
  /\ statsResult # <<>>
  /\ statsWrites = {2}
  /\ statsResult[1].completed = 1
  /\ statsResult[1].pending = 1
  /\ statsResult[1].overdue = 1

\* C12: a task created with no dueDate key is stored with no dueDate, is
\* counted by the pending count of getTaskStats while it is not completed, and
\* at no time by the overdue count (no update of this specification sets a
\* dueDate).
C12_NoDueDateNeverOverdue ==
  [][/\ \A body \in StatsCreateBodies :
          (CreateTaskCall(body) /\ body.dueDate = JUndefined /\ nextId' # nextId) =>
            store'[AssignedId(nextId')].dueDate = <<>>
     /\ StatsPending =>
          statsAcc'.pending >=
            Cardinality({k \in DOMAIN store :
                           store[k].dueDate = <<>> /\ store[k].isCompleted # "true"})
     /\ StatsOverdue =>
          statsResult'[1].overdue <=
            Cardinality({k \in DOMAIN store : store[k].dueDate # <<>>})]_vars

\* C13: the overdue count of getTaskStats is, at the time of its query, the
\* number of stored tasks that are not completed and whose dueDate is before
\* the clock: a task is not counted before its due date, is counted after it
\* while it is stored and not completed, and a completed task never is.
C13_OverdueAtQueryTime ==
  [][StatsOverdue =>
       statsResult'[1].overdue =
         Cardinality({k \in DOMAIN store :
                        /\ store[k].isCompleted # "true"
                        /\ store[k].dueDate # <<>>
                        /\ store[k].dueDate[1] < now})]_vars

(***************************************************************************)
(* SpecSearch: listTasks with a search string over letters of both cases,  *)
(* '.', '*' and '(', on tasks whose title and description hold them.       *)
(***************************************************************************)
SearchChars == {"a", "B", ".", "*", "("}

RECURSIVE StringsUpTo(_)
StringsUpTo(n) ==
  IF n = 0 THEN {<<>>}
  ELSE StringsUpTo(n - 1) \cup
       {<<c>> \o s : c \in SearchChars, s \in {x \in StringsUpTo(n - 1) : Len(x) = n - 1}}

SearchStrings == StringsUpTo(MaxSearchLen)

SearchBodies ==
  {[EmptyBody EXCEPT !.title = <<<<"A", "b">>>>],
   [EmptyBody EXCEPT !.title = <<<<"a", ".">>>>, !.description = <<<<"b", "(">>>>],
   [EmptyBody EXCEPT !.title = <<<<"b", "*", "a">>>>]}

SearchQueries == {[NoQuery EXCEPT !.search = <<s>>] : s \in SearchStrings}

NextSearch ==
  /\ UNCHANGED ClientVars
  /\ \/ \E body \in SearchBodies : CreateTaskReq(body)
     \/ \E query \in SearchQueries : ListTasksReq(query)

SpecSearch == Init /\ [][NextSearch]_vars

\* Whether text contains s, letters compared without regard to case.
ContainsCI(s, text) ==
  \E i \in 1..(Len(text) - Len(s) + 1) :
    \A j \in 1..Len(s) : Lower(text[i + j - 1]) = Lower(s[j])

\* C9: listTasks with a search string answers with exactly the stored tasks
\* whose title or description contains the string, case aside.
C9_SearchIsSubstring ==
  (resp.op = "list" /\ resp.query.search # <<>>) =>
    /\ resp.status = "200"
    /\ Range(resp.docs) =
         {d \in StoredDocs :
            \/ ContainsCI(resp.query.search[1], d.title)
            \/ d.description # <<>> /\ ContainsCI(resp.query.search[1], d.description[1])}

(***************************************************************************)
(* SpecPatch: createTask, updateTask and deleteTask on a collection that   *)
(* createTask has filled, over well-formed, absent and malformed ids, and  *)
(* over bodies that are empty, repeat a stored value, carry a blank title, *)
(* a past dueDate or the createdAt and updatedAt keys.                     *)
(***************************************************************************)
BlankTitles == {<<>>, <<" ">>, <<" ", " ">>}

PatchCreateBodies ==
  {MinimalBody, EmptyBody, [MinimalBody EXCEPT !.createdAt = <<Future>>],
   [MinimalBody EXCEPT !.updatedAt = <<0>>]}
    \cup {[EmptyBody EXCEPT !.title = <<t>>] : t \in BlankTitles}

EmptyPatch == EmptyBody
PendingPatch == [EmptyBody EXCEPT !.isCompleted = "false"]

\* Patches updateTask accepts on a stored task at any time.
ValidPatches == {EmptyPatch, PendingPatch, PatchOf({"title"})}

PatchBodies ==
  ValidPatches
    \cup {[EmptyBody EXCEPT !.title = <<t>>] : t \in BlankTitles}
    \cup {[EmptyBody EXCEPT !.createdAt = <<Future>>], [EmptyBody EXCEPT !.updatedAt = <<0>>],
          [EmptyBody EXCEPT !.dueDate = JNumber(1)]}

PatchIds ==
  {IdString(n) : n \in 1..MaxIds} \cup {Pad("f"), Pad("g"), Pad("a") \o <<"0">>, <<"s", "t">>}

NextPatch ==
  /\ resp.op = "none"
  /\ UNCHANGED ClientVars
  /\ \/ \E body \in PatchCreateBodies : CreateTaskReq(body)
     \/ \E id \in PatchIds, body \in PatchBodies : UpdateTaskReq(id, body)
     \/ \E id \in PatchIds : DeleteTaskReq(id)

SpecPatch == InitFrame /\ [][NextPatch]_vars

(***************************************************************************)
(* Claims checked under SpecPatch.                                         *)
(***************************************************************************)
\* C11: updateTask and deleteTask of an id that is not a 24-character
\* hexadecimal string fail with the invalid-id error and leave the collection
\* as it was, whatever the patch; of a well-formed id with no document they
\* leave the collection as it was and answer not-found (updateTask: for every
\* patch that passes validation, and never the invalid-id error).
C11_BadAndAbsentIds ==
  [][/\ \A id \in PatchIds, body \in PatchBodies :
          UpdateTaskReq(id, body) =>
            /\ ~Hex24(id) => (resp'.error = InvalidIdError /\ store' = store)
            /\ (Hex24(id) /\ ObjectIdOf(id) \notin DOMAIN store) =>
                 /\ store' = store
                 /\ resp'.error # InvalidIdError
                 /\ body \in ValidPatches => resp'.status = "404"
     /\ \A id \in PatchIds :
          DeleteTaskReq(id) =>
            /\ ~Hex24(id) => (resp'.error = InvalidIdError /\ store' = store)
            /\ (Hex24(id) /\ ObjectIdOf(id) \notin DOMAIN store) =>
                 (resp'.status = "404" /\ store' = store)]_vars

\* C11's case: an updateTask of a malformed id whose patch carries a past
\* dueDate has failed with the invalid-id error while tasks are stored.
C11_Witness ==
  /\ resp.op = "update"
  /\ ~Hex24(resp.id)
  /\ resp.body.dueDate = JNumber(1)
  /\ resp.error = InvalidIdError
  /\ store # <<>>

\* C14: every stored task has updatedAt >= createdAt, whatever bodies
\* createTask and updateTask were given (createdAt and updatedAt keys included).
C14_UpdatedNotBeforeCreated ==
  \A k \in DOMAIN store : store[k].updatedAt >= store[k].createdAt

\* C15: an updateTask that succeeds leaves the id and the createdAt of every
\* stored task as they were, whatever keys the patch carries.
C15_CreatedAtKept ==
  [][\A id \in PatchIds, body \in PatchBodies :
       (UpdateTaskReq(id, body) /\ resp'.status = "200") =>
         \A k \in DOMAIN store :
           /\ k \in DOMAIN store'
           /\ store'[k].id = store[k].id
           /\ store'[k].createdAt = store[k].createdAt]_vars

\* A text that is empty once trimmed.
Blank(text) == \A i \in 1..Len(text) : text[i] = " "

OtherFields ==
  {"id", "title", "description", "priority", "dueDate", "tags", "isCompleted", "createdAt"}

\* C18 as stated: updateTask(id, {isCompleted: false}) of a task whose
\* isCompleted is false succeeds and changes updatedAt only, to a value
\* strictly greater than the one it had.
C18_PendingAgainStrict ==
  [][\A id \in PatchIds :
       (/\ UpdateTaskReq(id, PendingPatch)
        /\ Hex24(id)
        /\ ObjectIdOf(id) \in DOMAIN store
        /\ store[ObjectIdOf(id)].isCompleted = "false") =>
         /\ resp'.status = "200"
         /\ ObjectIdOf(id) \in DOMAIN store'
         /\ \A f \in OtherFields : store'[ObjectIdOf(id)][f] = store[ObjectIdOf(id)][f]
         /\ store'[ObjectIdOf(id)].updatedAt > store[ObjectIdOf(id)].updatedAt]_vars

\* C18, amended: updateTask(id, {isCompleted: false}) of a task whose
\* isCompleted is false succeeds and changes updatedAt only, to the time of
\* the update: strictly greater than the value it had when the clock has
\* advanced since the task was last written, equal to it otherwise.
C18_PendingAgain ==
  [][\A id \in PatchIds :
       (/\ UpdateTaskReq(id, PendingPatch)
        /\ Hex24(id)
        /\ ObjectIdOf(id) \in DOMAIN store
        /\ store[ObjectIdOf(id)].isCompleted = "false") =>
         /\ resp'.status = "200"
         /\ ObjectIdOf(id) \in DOMAIN store'
         /\ \A f \in OtherFields : store'[ObjectIdOf(id)][f] = store[ObjectIdOf(id)][f]
         /\ store'[ObjectIdOf(id)].updatedAt = now
         /\ store'[ObjectIdOf(id)].updatedAt >= store[ObjectIdOf(id)].updatedAt
         /\ now > store[ObjectIdOf(id)].updatedAt =>
              store'[ObjectIdOf(id)].updatedAt > store[ObjectIdOf(id)].updatedAt]_vars

\* C18's case: a pending task created at time 1 has been marked pending again
\* at a later time, and its updatedAt is that time.
C18_Witness ==
  /\ resp.op = "update"
  /\ resp.body = PendingPatch
  /\ resp.status = "200"
  /\ resp.docs[1].isCompleted = "false"
  /\ resp.docs[1].createdAt = 1
  /\ resp.docs[1].updatedAt = MaxTime
  /\ store[resp.docs[1].id] = resp.docs[1]

\* C19 as stated: updateTask(id, {}) of a stored task succeeds, advances its
\* updatedAt and changes no other field of it and no other task.
C19_EmptyPatchStrict ==
  [][\A id \in PatchIds :
       (UpdateTaskReq(id, EmptyPatch) /\ Hex24(id) /\ ObjectIdOf(id) \in DOMAIN store) =>
         /\ resp'.status = "200"
         /\ DOMAIN store' = DOMAIN store
         /\ \A k \in DOMAIN store \ {ObjectIdOf(id)} : store'[k] = store[k]
         /\ \A f \in OtherFields : store'[ObjectIdOf(id)][f] = store[ObjectIdOf(id)][f]
         /\ store'[ObjectIdOf(id)].updatedAt > store[ObjectIdOf(id)].updatedAt]_vars

\* C19, amended: updateTask(id, {}) of a stored task succeeds, sets its
\* updatedAt to the time of the update (later than the value it had when the
\* clock has advanced since the task was last written, equal to it otherwise)
\* and changes no other field of it and no other task.
C19_EmptyPatch ==
  [][\A id \in PatchIds :
       (UpdateTaskReq(id, EmptyPatch) /\ Hex24(id) /\ ObjectIdOf(id) \in DOMAIN store) =>
         /\ resp'.status = "200"
         /\ DOMAIN store' = DOMAIN store
         /\ \A k \in DOMAIN store \ {ObjectIdOf(id)} : store'[k] = store[k]
         /\ \A f \in OtherFields : store'[ObjectIdOf(id)][f] = store[ObjectIdOf(id)][f]
         /\ store'[ObjectIdOf(id)].updatedAt = now
         /\ store'[ObjectIdOf(id)].updatedAt >= store[ObjectIdOf(id)].updatedAt
         /\ now > store[ObjectIdOf(id)].updatedAt =>
              store'[ObjectIdOf(id)].updatedAt > store[ObjectIdOf(id)].updatedAt]_vars

\* C19's case: an empty patch has been applied to one of two stored tasks, a
\* completed one with every field set, after the clock advanced.
C19_Witness ==
  /\ resp.op = "update"
  /\ resp.body = EmptyPatch
  /\ resp.status = "200"
  /\ Cardinality(DOMAIN store) = 2
  /\ resp.docs[1].isCompleted = "true"
  /\ resp.docs[1].priority = "high"
  /\ resp.docs[1].updatedAt > resp.docs[1].createdAt
  /\ store[resp.docs[1].id] = resp.docs[1]

(***************************************************************************)
(* SpecList: one listTasks request on a collection createTask has filled   *)
(* at different times, over every combination of the completed, priority   *)
(* and search query parameters.                                            *)
(***************************************************************************)
ListCompleted == {<<>>, <<"true">>, <<"false">>}
ListPriorities == {<<>>, <<"">>, <<"medium">>, <<"high">>, <<"High">>}
ListSearches == {<<>>, <<<<>>>>, <<TextA>>, <<<<"B">>>>, <<<<"d">>>>, <<<<".">>>>}

ListQueries ==
  {[completed |-> c, priority |-> p, search |-> s] :
     c \in ListCompleted, p \in ListPriorities, s \in ListSearches}

NextList ==
  /\ resp.op = "none"
  /\ UNCHANGED ClientVars
  /\ \E query \in ListQueries : ListTasksReq(query)

SpecList == InitFrame /\ [][NextList]_vars

\* C21: whatever the filters, listTasks answers with the tasks newest first:
\* in every adjacent pair the earlier task's createdAt is not before the later's.
C21_NewestFirst ==
  resp.op = "list" =>
    \A i \in 1..(Len(resp.docs) - 1) :
      resp.docs[i].createdAt >= resp.docs[i + 1].createdAt

\* A filtered list of two tasks created at different times, the newer first.
C21_Witness ==
  /\ resp.op = "list"
  /\ resp.query.priority = <<"high">>
  /\ Len(resp.docs) = 2
  /\ resp.docs[1].createdAt > resp.docs[2].createdAt

(***************************************************************************)
(* SpecFlip: markTaskCompleted and markTaskPending on tasks whose due date *)
(* passes as the clock advances.                                           *)
(***************************************************************************)
CompletedPatch == [EmptyBody EXCEPT !.isCompleted = "true"]

FlipPatches == {CompletedPatch, PendingPatch}

FlipCreateBodies ==
  {MinimalBody, DueSoonBody, [DueSoonBody EXCEPT !.isCompleted = "true"]}

FlipIds == {IdString(n) : n \in 1..MaxIds}

NextFlip ==
  /\ UNCHANGED ClientVars
  /\ \/ \E body \in FlipCreateBodies : CreateTaskCall(body) /\ UNCHANGED resp
     \/ \E id \in FlipIds, body \in FlipPatches : UpdateTaskReq(id, body)
     \/ Tick

SpecFlip == Init /\ [][NextFlip]_vars

\* C22: markTaskCompleted and markTaskPending succeed on every stored task,
\* a task whose stored due date has passed included, and leave it with the
\* completion flag they set.
C22_FlipAlwaysSucceeds ==
  [][\A id \in FlipIds, body \in FlipPatches :
       (UpdateTaskReq(id, body) /\ ObjectIdOf(id) \in DOMAIN store) =>
         /\ resp'.status = "200"
         /\ store'[ObjectIdOf(id)].isCompleted = body.isCompleted
         /\ store'[ObjectIdOf(id)].dueDate = store[ObjectIdOf(id)].dueDate]_vars

\* A task whose due date has passed was marked completed, then pending again.
C22_Witness ==
  /\ resp.op = "update"
  /\ resp.status = "200"
  /\ resp.body = PendingPatch
  /\ resp.docs[1].dueDate # <<>>
  /\ resp.docs[1].dueDate[1] < now
  /\ resp.docs[1].isCompleted = "false"
  /\ resp.docs[1].createdAt < resp.docs[1].updatedAt

\* Whether a stored task satisfies the filters a list query carries: the
\* completion flag, the priority and the search string (contained in the title
\* or the description, case aside); an absent or empty one constrains nothing.
Satisfies(d, query) ==
  /\ query.completed = <<>> \/ d.isCompleted = query.completed[1]
  /\ query.priority \in {<<>>, <<"">>} \/ d.priority = query.priority[1]
  /\ query.search \in {<<>>, <<<<>>>>}
       \/ ContainsCI(query.search[1], d.title)
       \/ (d.description # <<>> /\ ContainsCI(query.search[1], d.description[1]))

\* C24: for every combination of the completed, priority and search filters,
\* listTasks answers with exactly the stored tasks that satisfy every filter
\* present.
C24_FiltersConjoined ==
  resp.op = "list" =>
    /\ resp.status = "200"
    /\ Range(resp.docs) = {d \in StoredDocs : Satisfies(d, resp.query)}

(***************************************************************************)
(* SpecPriority: one createTask or updateTask whose priority is a value of *)
(* the enum, a capitalised name, another word or the empty string, on a    *)
(* collection createTask has filled.                                       *)
(***************************************************************************)
PriorityInputs == {"low", "medium", "high", "High", "urgent", ""}

PriorityCreateBodies ==
  {MinimalBody, [MinimalBody EXCEPT !.isCompleted = "true"]}
    \cup {[MinimalBody EXCEPT !.priority = <<p>>] : p \in PriorityInputs}

PriorityPatches ==
  {[EmptyBody EXCEPT !.priority = <<p>>] : p \in PriorityInputs}
    \cup {[EmptyBody EXCEPT !.priority = <<p>>, !.title = <<TextA>>] : p \in PriorityInputs}

PriorityIds == {IdString(n) : n \in 1..MaxIds} \cup {Pad("f")}

NextPriority ==
  /\ resp.op = "none"
  /\ UNCHANGED ClientVars
  /\ \/ \E body \in PriorityCreateBodies : CreateTaskReq(body)
     \/ \E id \in PriorityIds, body \in PriorityPatches : UpdateTaskReq(id, body)

SpecPriority == InitFrame /\ [][NextPriority]_vars

\* A priority given with a value other than low, medium and high.
BadPriority(body) ==
  body.priority # <<>> /\ body.priority[1] \notin {"low", "medium", "high"}

\* C25: a createTask or updateTask whose priority is none of low, medium and
\* high fails with a validation error and leaves the collection as it was; a
\* task created without a priority has priority medium, and one created
\* without isCompleted has isCompleted false.
C25_PriorityEnum ==
  [][/\ \A body \in PriorityCreateBodies :
          CreateTaskReq(body) =>
            IF BadPriority(body)
            THEN resp'.error = ValidationError /\ store' = store
            ELSE /\ resp'.status = "201"
                 /\ store'[AssignedId(nextId + 1)] = resp'.docs[1]
                 /\ body.priority = <<>> => resp'.docs[1].priority = "medium"
                 /\ body.priority # <<>> => resp'.docs[1].priority = body.priority[1]
                 /\ body.isCompleted = "undefined" => resp'.docs[1].isCompleted = "false"
     /\ \A id \in PriorityIds, body \in PriorityPatches :
          (UpdateTaskReq(id, body) /\ BadPriority(body)) =>
            (resp'.error = ValidationError /\ store' = store)]_vars

\* An updateTask of a stored task with the capitalised priority "High" was
\* refused.
C25_Witness ==
  /\ resp.op = "update"
  /\ resp.body.priority = <<"High">>
  /\ resp.error = ValidationError
  /\ ObjectIdOf(resp.id) \in DOMAIN store
  /\ store[ObjectIdOf(resp.id)].priority = "medium"

(***************************************************************************)
(* The client store (client/src/stores/task-store.ts) over the api client. *)
(* A request is [rid, kind, id, body, query, toggle, state, resp]: what    *)
(* the store asked for, whether toggleTaskOptimistic sent it, and its      *)
(* state: "sent", "answered" (the server's response resp has arrived) or   *)
(* "failed" (no response: a network error or the 10 s timeout).  A store   *)
(* action is the synchronous part of the store's function up to its await; *)
(* a ...Done action is the rest of it, run when the request settles.  The  *)
(* client's task ids are the documents' _id.                               *)
(***************************************************************************)
ServerVars == <<store, nextId, now, resp, statsPc, statsAcc, statsResult, statsWrites, deleted>>

NetworkError == "Network Error"
NotFoundError == "Task not found"

NewRequest(n, kind, id, body, query, toggle) ==
  [rid |-> nextReq + n, kind |-> kind, id |-> id, body |-> body, query |-> query,
   toggle |-> toggle, state |-> "sent", resp |-> NoResponse]

\* The requests of new leave the client.
Send(new) ==
  /\ nextReq + Cardinality(new) <= MaxRequests
  /\ inflight' = inflight \cup new
  /\ nextReq' = nextReq + Cardinality(new)

\* The awaited request req has settled, and the requests of new leave.
Settle(req, new) ==
  /\ nextReq + Cardinality(new) <= MaxRequests
  /\ inflight' = (inflight \ {req}) \cup new
  /\ nextReq' = nextReq + Cardinality(new)

\* The awaited promise resolved: a 2xx response.
Succeeded(req) == req.state = "answered" /\ req.resp.status \in {"200", "201"}

\* error.message of the Error the api client throws.
ErrorMessage(req) ==
  IF req.state = "failed" THEN NetworkError
  ELSE IF req.resp.error # "" THEN req.resp.error ELSE NotFoundError

\* taskService.getTasks(filters): the query string parameters.
QueryOf(f) ==
  [completed |-> IF f.isCompleted = "undefined" THEN <<>> ELSE <<f.isCompleted>>,
   priority |-> IF f.priority # <<>> /\ f.priority[1] # "" THEN f.priority ELSE <<>>,
   search |-> IF f.search # <<>> /\ f.search[1] # <<>> THEN f.search ELSE <<>>]

\* {...state.filters, ...newFilters}: a key of newFilters is <<>> when absent
\* and <<v>> when present with value v.
MergeFilters(f, newFilters) ==
  [k \in DOMAIN f |-> IF newFilters[k] = <<>> THEN f[k] ELSE newFilters[k][1]]

\* !task.isCompleted
NotCompleted(v) == IF v = "true" THEN "false" ELSE "true"

\* tasks.map(task => task.id === id ? {...task, isCompleted: !task.isCompleted} : task)
Toggled(ts, id) ==
  [i \in 1..Len(ts) |->
     IF ts[i].id = id THEN [ts[i] EXCEPT !.isCompleted = NotCompleted(@)] ELSE ts[i]]

\* tasks.map(task => task.id === id ? updatedTask : task)
Replaced(ts, id, updatedTask) ==
  [i \in 1..Len(ts) |-> IF ts[i].id = id THEN updatedTask ELSE ts[i]]

\* tasks.filter(task => task.id !== id)
RECURSIVE Removed(_, _)
Removed(ts, id) ==
  IF ts = <<>> THEN <<>>
  ELSE IF Head(ts).id = id THEN Removed(Tail(ts), id)
       ELSE <<Head(ts)>> \o Removed(Tail(ts), id)

\* tasks.find(t => t.id === id), as <<>> or <<task>>
FindTask(ts, id) ==
  IF \E i \in 1..Len(ts) : ts[i].id = id
  THEN <<ts[CHOOSE i \in 1..Len(ts) :
              ts[i].id = id /\ \A j \in 1..(i - 1) : ts[j].id # id]>>
  ELSE <<>>

\* The ids of the tasks the client lists.
TaskIds == {tasks[i].id : i \in 1..Len(tasks)}

StatsRequest == NewRequest(1, "getTaskStats", <<>>, EmptyBody, NoFilters, FALSE)

\* fetchTasks(), given the filters it reads
FetchTasksWith(f) ==
  /\ isLoading' = TRUE
  /\ error' = ""
  /\ Send({NewRequest(1, "getTasks", <<>>, EmptyBody, f, FALSE)})
  /\ UNCHANGED <<tasks, selectedTasks, stats, ServerVars>>

\* fetchTasks() up to its await
FetchTasks == FetchTasksWith(taskFilters) /\ UNCHANGED taskFilters

\* fetchTasks() from its await on
FetchTasksDone(req) ==
  /\ req \in inflight /\ req.kind = "getTasks" /\ req.state # "sent"
  /\ IF Succeeded(req)
     THEN tasks' = req.resp.docs /\ UNCHANGED error
     ELSE error' = ErrorMessage(req) /\ UNCHANGED tasks
  /\ isLoading' = FALSE
  /\ Settle(req, {})
  /\ UNCHANGED <<selectedTasks, taskFilters, stats, ServerVars>>

\* fetchTaskStats() up to its await
FetchTaskStats ==
  /\ Send({StatsRequest})
  /\ UNCHANGED <<tasks, selectedTasks, taskFilters, stats, isLoading, error, ServerVars>>

\* fetchTaskStats() from its await on
FetchTaskStatsDone(req) ==
  /\ req \in inflight /\ req.kind = "getTaskStats" /\ req.state # "sent"
  /\ stats' = IF Succeeded(req) THEN req.resp.docs ELSE stats
  /\ Settle(req, {})
  /\ UNCHANGED <<tasks, selectedTasks, taskFilters, isLoading, error, ServerVars>>

\* createTask(input) up to its await
CreateTask(input) ==
  /\ isLoading' = TRUE
  /\ error' = ""
  /\ Send({NewRequest(1, "createTask", <<>>, input, NoFilters, FALSE)})
  /\ UNCHANGED <<tasks, selectedTasks, taskFilters, stats, ServerVars>>

\* createTask(input) from its await on
CreateTaskDone(req) ==
  /\ req \in inflight /\ req.kind = "createTask" /\ req.state # "sent"
  /\ IF Succeeded(req)
     THEN /\ tasks' = req.resp.docs \o tasks
          /\ Settle(req, {StatsRequest})
          /\ UNCHANGED error
     ELSE /\ error' = ErrorMessage(req)
          /\ Settle(req, {})
          /\ UNCHANGED tasks
  /\ isLoading' = FALSE
  /\ UNCHANGED <<selectedTasks, taskFilters, stats, ServerVars>>

\* updateTask(id, input) up to its await
UpdateTask(id, input) ==
  /\ error' = ""
  /\ Send({NewRequest(1, "updateTask", OidString(id), input, NoFilters, FALSE)})
  /\ UNCHANGED <<tasks, selectedTasks, taskFilters, stats, isLoading, ServerVars>>

\* toggleTaskOptimistic(id), with the updateTask call it makes up to its await
ToggleTaskOptimistic(id) ==
  LET task == FindTask(Toggled(tasks, id), id) IN
    /\ tasks' = Toggled(tasks, id)
    /\ IF task # <<>>
       THEN /\ error' = ""
            /\ Send({NewRequest(1, "updateTask", OidString(id),
                                [EmptyBody EXCEPT !.isCompleted = task[1].isCompleted],
                                NoFilters, TRUE)})
       ELSE UNCHANGED <<error, inflight, nextReq>>
    /\ UNCHANGED <<selectedTasks, taskFilters, stats, isLoading, ServerVars>>

\* updateTask(id, input) from its await on, and the catch of
\* toggleTaskOptimistic when it made the call: toggleTaskOptimistic(id) again.
UpdateTaskDone(req) ==
  LET id == ObjectIdOf(req.id)
      task == FindTask(Toggled(tasks, id), id) IN
    /\ req \in inflight /\ req.kind = "updateTask" /\ req.state # "sent"
    /\ IF Succeeded(req)
       THEN /\ tasks' = Replaced(tasks, id, req.resp.docs[1])
            /\ Settle(req, IF req.body.isCompleted # "undefined" THEN {StatsRequest} ELSE {})
            /\ UNCHANGED error
       ELSE IF ~req.toggle
       THEN /\ error' = ErrorMessage(req)
            /\ Settle(req, {})
            /\ UNCHANGED tasks
       ELSE /\ tasks' = Toggled(tasks, id)
            /\ IF task # <<>>
               THEN /\ error' = ""
                    /\ Settle(req, {NewRequest(1, "updateTask", req.id,
                                               [EmptyBody EXCEPT !.isCompleted = task[1].isCompleted],
                                               NoFilters, TRUE)})
               ELSE /\ error' = ErrorMessage(req)
                    /\ Settle(req, {})
    /\ UNCHANGED <<selectedTasks, taskFilters, stats, isLoading, ServerVars>>

\* deleteTask(id) up to its await
DeleteTask(id) ==
  /\ error' = ""
  /\ Send({NewRequest(1, "deleteTask", OidString(id), EmptyBody, NoFilters, FALSE)})
  /\ UNCHANGED <<tasks, selectedTasks, taskFilters, stats, isLoading, ServerVars>>

\* deleteTask(id) from its await on, with a set() that filters tasks only.
DeleteTaskDoneKeepsSelection(req) ==
  LET id == ObjectIdOf(req.id) IN
    /\ req \in inflight /\ req.kind = "deleteTask" /\ req.state # "sent"
    /\ IF Succeeded(req)
       THEN /\ tasks' = Removed(tasks, id)
            /\ Settle(req, {StatsRequest})
            /\ UNCHANGED error
       ELSE /\ error' = ErrorMessage(req)
            /\ Settle(req, {})
            /\ UNCHANGED tasks
    /\ UNCHANGED <<selectedTasks, taskFilters, stats, isLoading, ServerVars>>

\* deleteTask(id) from its await on
DeleteTaskDone(req) ==
  LET id == ObjectIdOf(req.id) IN
    /\ req \in inflight /\ req.kind = "deleteTask" /\ req.state # "sent"
    /\ IF Succeeded(req)
       THEN /\ tasks' = Removed(tasks, id)
            /\ selectedTasks' = selectedTasks \ {id}
            /\ Settle(req, {StatsRequest})
            /\ UNCHANGED error
       ELSE /\ error' = ErrorMessage(req)
            /\ Settle(req, {})
            /\ UNCHANGED <<tasks, selectedTasks>>
    /\ UNCHANGED <<taskFilters, stats, isLoading, ServerVars>>

\* selectTask(id)
SelectTask(id) ==
  /\ selectedTasks' = selectedTasks \cup {id}
  /\ UNCHANGED <<tasks, taskFilters, stats, isLoading, error, inflight, nextReq, ServerVars>>

\* deselectTask(id)
DeselectTask(id) ==
  /\ selectedTasks' = selectedTasks \ {id}
  /\ UNCHANGED <<tasks, taskFilters, stats, isLoading, error, inflight, nextReq, ServerVars>>

\* clearSelection()
ClearSelection ==
  /\ selectedTasks' = {}
  /\ UNCHANGED <<tasks, taskFilters, stats, isLoading, error, inflight, nextReq, ServerVars>>

\* TaskList's Delete Selected: selectedTasks.forEach(id => deleteTask(id)); clearSelection()
DeleteSelected ==
  /\ selectedTasks # {}
  /\ \E order \in Orderings(selectedTasks) :
       Send({NewRequest(i, "deleteTask", OidString(order[i]), EmptyBody, NoFilters, FALSE) :
               i \in 1..Len(order)})
  /\ error' = ""
  /\ selectedTasks' = {}
  /\ UNCHANGED <<tasks, taskFilters, stats, isLoading, ServerVars>>

\* setFilters(newFilters)
SetFilters(newFilters) ==
  /\ taskFilters' = MergeFilters(taskFilters, newFilters)
  /\ FetchTasksWith(MergeFilters(taskFilters, newFilters))

\* clearFilters()
ClearFilters ==
  /\ taskFilters' = NoFilters
  /\ FetchTasksWith(NoFilters)

\* The server's response to req arrives.
Answer(req) ==
  /\ inflight' = (inflight \ {req}) \cup {[req EXCEPT !.state = "answered", !.resp = resp']}
  /\ UNCHANGED <<tasks, selectedTasks, taskFilters, stats, isLoading, error, nextReq>>

\* Whether req is a request of the given kind on its way to the server.
Arrives(req, kind) == req \in inflight /\ req.state = "sent" /\ req.kind = kind

\* The server handles a request of the client.
ServeGetTasks(req) ==
  Arrives(req, "getTasks") /\ ListTasksReq(QueryOf(req.query)) /\ Answer(req)

ServeGetTaskStats(req) == Arrives(req, "getTaskStats") /\ GetStatsReq /\ Answer(req)

ServeCreateTask(req) == Arrives(req, "createTask") /\ CreateTaskReq(req.body) /\ Answer(req)

ServeUpdateTask(req) ==
  Arrives(req, "updateTask") /\ UpdateTaskReq(req.id, req.body) /\ Answer(req)

ServeDeleteTask(req) == Arrives(req, "deleteTask") /\ DeleteTaskReq(req.id) /\ Answer(req)

\* A request gets no response.
RequestFails(req) ==
  /\ req \in inflight /\ req.state = "sent"
  /\ inflight' = (inflight \ {req}) \cup {[req EXCEPT !.state = "failed"]}
  /\ UNCHANGED <<tasks, selectedTasks, taskFilters, stats, isLoading, error, nextReq, ServerVars>>

(***************************************************************************)
(* SpecToggle: toggleTaskOptimistic on the tasks of a client that has      *)
(* fetched the list, with its update and statistics requests answered by   *)
(* the server or failing, and settled in any order.                        *)
(***************************************************************************)
\* The client after its first fetchTasks has completed, on one of the given
\* collections, at the end of the clock's range.
InitLoadedOn(stores) ==
  \E st \in stores : \E r \in getAllTasks(st, ExtractFilters(NoQuery)) :
    /\ store = st
    /\ nextId = Cardinality(DOMAIN st)
    /\ now = MaxTime
    /\ resp = NoResponse
    /\ statsPc = 0
    /\ statsAcc = NoAcc
    /\ statsResult = <<>>
    /\ statsWrites = {}
    /\ deleted = [k \in Oids |-> 0]
    /\ tasks = r.docs
    /\ selectedTasks = {}
    /\ taskFilters = NoFilters
    /\ stats = <<>>
    /\ isLoading = FALSE
    /\ error = ""
    /\ inflight = {}
    /\ nextReq = 0

NextToggle ==
  \/ \E id \in TaskIds : ToggleTaskOptimistic(id)
  \/ \E req \in inflight : ServeUpdateTask(req)
  \/ \E req \in inflight : ServeGetTaskStats(req)
  \/ \E req \in inflight : RequestFails(req)
  \/ \E req \in inflight : UpdateTaskDone(req)
  \/ \E req \in inflight : FetchTaskStatsDone(req)

\* On a collection of n tasks created at any times.
InitLoaded(n) == InitLoadedOn({p.st : p \in CreatedStores(n)})

SpecToggle == InitLoaded(1) /\ [][NextToggle]_vars

\* C26: when the update request of a toggleTaskOptimistic(id) fails, the store
\* puts the task's isCompleted back and stops: handling the failure sends no
\* further request.
C26_RevertThenStop ==
  [][\A req \in inflight :
       (UpdateTaskDone(req) /\ req.toggle /\ ~Succeeded(req)) =>
         /\ tasks' = Toggled(tasks, ObjectIdOf(req.id))
         /\ nextReq' = nextReq
         /\ inflight' = inflight \ {req}]_vars

\* C27: when no request is in flight, every task the client lists has the
\* isCompleted the server stores for it.
C27_SettledAgrees ==
  inflight = {} =>
    \A i \in 1..Len(tasks) :
      tasks[i].id \in DOMAIN store => tasks[i].isCompleted = store[tasks[i].id].isCompleted

(***************************************************************************)
(* SpecFilters: setFilters and clearFilters of a client whose list         *)
(* requests are answered by the server or fail, and settle in any order,   *)
(* on a collection that does not change.                                   *)
(***************************************************************************)
\* A client that has sent nothing yet, on a collection of n tasks, at the end
\* of the clock's range.
InitFresh(n) ==
  \E p \in CreatedStores(n) :
    /\ store = p.st
    /\ nextId = n
    /\ now = MaxTime
    /\ resp = NoResponse
    /\ statsPc = 0
    /\ statsAcc = NoAcc
    /\ statsResult = <<>>
    /\ statsWrites = {}
    /\ deleted = [k \in Oids |-> 0]
    /\ ClientInit

NoChange == [isCompleted |-> <<>>, priority |-> <<>>, search |-> <<>>]

\* What TaskList passes to setFilters: the priority or the completion select,
\* or the search box.
FilterChanges ==
  {[NoChange EXCEPT !.priority = <<<<"high">>>>], [NoChange EXCEPT !.priority = <<<<>>>>],
   [NoChange EXCEPT !.isCompleted = <<"true">>], [NoChange EXCEPT !.search = <<<<TextA>>>>]}

NextFilters ==
  \/ nextReq < MaxFetches /\ \E newFilters \in FilterChanges : SetFilters(newFilters)
  \/ nextReq < MaxFetches /\ ClearFilters
  \/ \E req \in inflight : ServeGetTasks(req)
  \/ \E req \in inflight : RequestFails(req)
  \/ \E req \in inflight : FetchTasksDone(req)

SpecFilters == InitFresh(1) /\ [][NextFilters]_vars

\* C28: once every fetchTasks request that setFilters and clearFilters started
\* has completed (none of them having failed), the task list is an answer of
\* the server for the filters the store holds now.
C28_ListForCurrentFilters ==
  (nextReq > 0 /\ inflight = {} /\ error = "") =>
    tasks \in {r.docs : r \in getAllTasks(store, ExtractFilters(QueryOf(taskFilters)))}

(***************************************************************************)
(* SpecLoading: fetchTasks and createTask overlapping, with their requests *)
(* and the statistics refresh settled in any order.                        *)
(***************************************************************************)
LoadingInputs == {MinimalBody, EmptyBody}

NextLoading ==
  \/ FetchTasks
  \/ \E input \in LoadingInputs : CreateTask(input)
  \/ \E req \in inflight : ServeGetTasks(req)
  \/ \E req \in inflight : ServeCreateTask(req)
  \/ \E req \in inflight : ServeGetTaskStats(req)
  \/ \E req \in inflight : RequestFails(req)
  \/ \E req \in inflight : FetchTasksDone(req)
  \/ \E req \in inflight : CreateTaskDone(req)
  \/ \E req \in inflight : FetchTaskStatsDone(req)

SpecLoading == InitFresh(1) /\ [][NextLoading]_vars

\* C30: isLoading is true in every state in which a fetchTasks or a createTask
\* request is in flight.
C30_LoadingWhileInFlight ==
  (\E req \in inflight : req.kind \in {"getTasks", "createTask"}) => isLoading

(***************************************************************************)
(* SpecDelete: deleteTask, the selection and TaskList's Delete Selected on *)
(* the tasks of a client that has fetched the list, with the delete and    *)
(* statistics requests answered by the server or failing, in any order.    *)
(***************************************************************************)
\* The collections two createTask calls of the same millisecond leave.
PairStores ==
  {createTask(createTask(<<>>, 0, 1, a).store, 1, 1, b).store :
     a \in {MinimalBody, FullBody}, b \in {MinimalBody, FullBody}}

NextDelete ==
  \/ \E id \in TaskIds : SelectTask(id)
  \/ \E id \in TaskIds : DeselectTask(id)
  \/ ClearSelection
  \/ nextReq < MaxDeletes /\ \E id \in TaskIds : DeleteTask(id)
  \/ nextReq < MaxDeletes /\ DeleteSelected
  \/ \E req \in inflight : ServeDeleteTask(req)
  \/ \E req \in inflight : ServeGetTaskStats(req)
  \/ \E req \in inflight : RequestFails(req)
  \/ \E req \in inflight : DeleteTaskDone(req)
  \/ \E req \in inflight : FetchTaskStatsDone(req)

SpecDelete == InitLoadedOn(PairStores) /\ [][NextDelete]_vars

\* C29: a deleteTask(id) that succeeds removes id from tasks and from
\* selectedTasks and leaves the other tasks, the other selected ids and the
\* error as they were; a deleteTask(id) that fails leaves tasks and
\* selectedTasks as they were and sets error.
C29_DeleteFrame ==
  [][\A req \in inflight :
       DeleteTaskDone(req) =>
         LET id == ObjectIdOf(req.id)
             Other(t) == t.id # id
         IN IF req.state = "answered" /\ req.resp.status = "200"
            THEN /\ tasks' = SelectSeq(tasks, Other)
                 /\ selectedTasks' = {k \in selectedTasks : k # id}
                 /\ error' = error
            ELSE /\ tasks' = tasks
                 /\ selectedTasks' = selectedTasks
                 /\ error' # ""]_vars

\* One task was deleted, a second deleteTask of the same id was refused, and
\* the other task is still listed and selected.
C29_Witness ==
  /\ error = NotFoundError
  /\ Len(tasks) = 1
  /\ selectedTasks = {tasks[1].id}
  /\ DOMAIN store = {tasks[1].id}

====
